---- MODULE Spec2Model ----
(***************************************************************************)
(* rercon: an RCON client.  SingleConnection (connection.rs) owns the      *)
(* write half of a TCP stream and a background Receiver Task that owns the *)
(* read half; ReconnectingConnection (reconnect.rs) wraps one behind a     *)
(* mutex-guarded status and a background Reconnect Task.                   *)
(*                                                                         *)
(* Steps are delimited by the await points of the code.  A tokio Notify is *)
(* a single stored permit: notify() stores it, a polled notified() takes   *)
(* it.  A select! whose branches are both ready may take either.           *)
(***************************************************************************)
EXTENDS Integers, Sequences, FiniteSets

\* ------------------------------------------------------------------ bounds
\* i32::MAX scaled to a width the checker can wrap
IntMax == 2
\* exec calls made on one connection
MaxExecs == 2
\* frames an arbitrary server sends in one behaviour
MaxFrames == 2
\* frames in flight from the server to the client at one time
MaxInFlight == 1
\* the 1014-byte body ceiling of a frame, scaled
MaxBody == 1
\* RESPONSE frames a conforming server splits one reply into
MaxK == 2
\* exec calls made on one ReconnectingConnection
MaxCalls == 3
\* addresses one host name resolves to
MaxAddrs == 3

\* ------------------------------------------------------- program constants
TYPE_AUTH == 3
TYPE_EXEC == 2
TYPE_RESPONSE == 0
TYPE_AUTH_RESPONSE == 2
\* mpsc::channel(1)
ChannelCapacity == 1

\* ------------------------------------------------------------------- data
\* a body is the sequence of its bytes
\* a byte that is no valid UTF-8
BadByte == 255
\* "a", "b"
Bodies == {<<97>>, <<98>>}
\* "", "x", "xx", ...
Cmds == {<<>>} \cup {[i \in 1..n |-> 120] : n \in 1..(MaxBody + 1)}

Packet(id, ty, body) == [id |-> id, ty |-> ty, body |-> body]

\* a continuation byte
Cont(b) == b \in 128..191

\* String::from_utf8 in Packet::read: the bytes from position i on are
\* well-formed UTF-8 (no overlong form, no surrogate, nothing above U+10FFFF)
RECURSIVE Utf8From(_, _)
Utf8From(bs, i) ==
    IF i > Len(bs) THEN TRUE
    ELSE LET b == bs[i]
             n == Len(bs) - i
         IN  IF b <= 127 THEN Utf8From(bs, i + 1)
             ELSE IF b \in 194..223
             THEN n >= 1 /\ Cont(bs[i + 1]) /\ Utf8From(bs, i + 2)
             ELSE IF b \in 224..239
             THEN /\ n >= 2
                  /\ bs[i + 1] \in (IF b = 224 THEN 160..191 ELSE IF b = 237 THEN 128..159 ELSE 128..191)
                  /\ Cont(bs[i + 2])
                  /\ Utf8From(bs, i + 3)
             ELSE IF b \in 240..244
             THEN /\ n >= 3
                  /\ bs[i + 1] \in (IF b = 240 THEN 144..191 ELSE IF b = 244 THEN 128..143 ELSE 128..191)
                  /\ Cont(bs[i + 2]) /\ Cont(bs[i + 3])
                  /\ Utf8From(bs, i + 4)
             ELSE FALSE

Utf8Valid(body) == Utf8From(body, 1)

Ok(s) == [ok |-> TRUE, val |-> s, kind |-> "", msg |-> <<>>]
Err(k, m) == [ok |-> FALSE, val |-> <<>>, kind |-> k, msg |-> m]
NoResult == [ok |-> FALSE, val |-> <<>>, kind |-> "none", msg |-> <<>>]

\* Display for RconError prints the Debug form: the variant, then its payload
to_string(e) == <<e.kind>> \o e.msg

\* a wrap to 0, the id of the AUTH frame
next_counter_wraps_to_zero(c) == IF c + 1 > IntMax THEN 0 ELSE c + 1

\* wrapping_add(1): the overflow goes on to the smallest integer
next_counter_wrapping(c) == IF c + 1 > IntMax THEN -IntMax - 1 ELSE c + 1

\* checked_add(1), or 1 on overflow
next_counter(c) == IF c + 1 > IntMax THEN 1 ELSE c + 1

\* frames an arbitrary server may put on the wire
ServerFrames ==
    {Packet(i, TYPE_RESPONSE, b) : i \in -1..IntMax, b \in Bodies}
    \cup {Packet(i, TYPE_EXEC, <<>>) : i \in 1..IntMax}
    \cup {Packet(1, TYPE_RESPONSE, <<BadByte>>)}

VARIABLES
    \* --- SingleConnection
    counter,          \* SingleConnection.counter
    pc,               \* where the flow driving the connection is
    original_id,      \* exec's local
    cmd,              \* exec's argument
    ret,              \* what the last exec returned
    execs,            \* exec calls made so far
    \* --- ReceiverHandle / ReceiverHandleShared
    request_id,       \* AtomicI32
    received_first_response,  \* Notify permit
    rx_close_connection,      \* Notify permit
    chan,             \* the mpsc channel's buffer
    handle_alive,     \* the mpsc Receiver end has not been dropped
    \* --- Receiver Task
    rx_pc, end_id, result, response,
    \* --- transport and server
    inbox,            \* frames in flight to the client
    link,             \* the TCP stream is up
    srvq,             \* frames a conforming server has still to answer
    server,           \* "arbitrary" or "conforming"
    split,            \* frames a conforming server splits each reply into
    frames_left,      \* frames the arbitrary server may still send
    \* --- history
    sent,             \* frames written by the current exec call
    got,              \* bodies of the RESPONSE frames tagged original_id read during the call
    call_open,        \* the call's response has not been completed by the Receiver Task
    replied,          \* what a conforming server answered the call's command with
    tagged_read,      \* a frame tagged original_id has been read during the call
    \* --- ReconnectingConnection / Internal
    status,           \* Mutex<Status>: the tag and, when Disconnected, the reason
    lock,             \* who holds the status mutex
    sup_close_connection,     \* Notify permit
    reconnect_loop,   \* Option<JoinHandle>: the task it joins, 0 for None
    tasks,            \* where each Reconnect Task spawned so far is
    sup_pc,           \* where the caller of the ReconnectingConnection is
    sup_ret,          \* what the last ReconnectingConnection::exec returned
    sup_op,           \* which way it returned
    reachable,        \* SingleConnection::open would succeed
    \* --- a Packet written to a buffer and read back
    packet, wire, decoded, codec_pc,
    \* --- try_connect
    lookup,           \* what lookup_host yields
    addrs,            \* the candidates the loop has still to try
    error,            \* the local `error`
    tries,            \* the candidates tried so far, in order
    dial_pc,          \* where try_connect is
    dial_ret          \* what try_connect returned

conn_vars == <<counter, pc, original_id, cmd, ret, execs>>
handle_vars == <<request_id, received_first_response, rx_close_connection, chan, handle_alive>>
task_vars == <<rx_pc, end_id, result, response>>
net_vars == <<inbox, link, srvq, server, split, frames_left>>
hist_vars == <<sent, got, call_open, replied, tagged_read>>
sup_vars == <<status, lock, sup_close_connection, reconnect_loop, tasks, sup_pc, sup_ret,
              sup_op, reachable>>
codec_vars == <<packet, wire, decoded, codec_pc>>
dial_vars == <<lookup, addrs, error, tries, dial_pc, dial_ret>>
vars == <<conn_vars, handle_vars, task_vars, net_vars, hist_vars, sup_vars, codec_vars, dial_vars>>

Connected == [tag |-> "Connected", reason |-> <<>>]
Disconnected(msg) == [tag |-> "Disconnected", reason |-> msg]
Stopped == [tag |-> "Stopped", reason |-> <<>>]

\* ------------------------------------------------------------------ Init
FreshConnection ==
    /\ counter = 0 /\ pc = "idle" /\ original_id = 0 /\ cmd = <<>> /\ ret = NoResult
    /\ request_id = -1
    /\ received_first_response = FALSE /\ rx_close_connection = FALSE
    /\ chan = <<>> /\ handle_alive = TRUE
    /\ rx_pc = "read" /\ end_id = -1 /\ result = <<>> /\ response = NoResult
    /\ inbox = <<>> /\ link = TRUE /\ srvq = <<>>
    /\ sent = <<>> /\ got = <<>> /\ call_open = FALSE /\ replied = <<>>
    /\ tagged_read = FALSE

\* no ReconnectingConnection: the SingleConnection is used directly
NoSupervisor ==
    /\ status = Connected /\ lock = "free" /\ sup_close_connection = FALSE
    /\ reconnect_loop = 0 /\ tasks = <<>>
    /\ sup_pc = "none" /\ sup_ret = NoResult /\ sup_op = "none"
    /\ reachable = TRUE

\* no Packet is being written or read on its own
NoCodec ==
    /\ codec_pc = "none" /\ packet = Packet(0, 0, <<>>) /\ wire = <<>> /\ decoded = NoResult

\* no try_connect is running
NoDial ==
    /\ dial_pc = "none" /\ lookup = [ok |-> FALSE, addrs |-> <<>>] /\ addrs = <<>>
    /\ error = NoResult /\ tries = <<>> /\ dial_ret = NoResult

Init ==
    /\ FreshConnection
    /\ NoSupervisor
    /\ NoCodec
    /\ NoDial
    /\ execs = 0
    /\ server = "arbitrary"
    /\ split = 0
    /\ frames_left = MaxFrames

\* --------------------------------------------------- SingleConnection::exec
\* a body of exactly the largest length is refused too
send_internal_off_by_one(p) ==
    IF Len(p.body) >= MaxBody THEN {"too_long"}
    ELSE IF link THEN {"ok"}
    ELSE {"ok", "io"}

\* Packet::send_internal: the length check comes before any I/O; a write on a
\* stream the peer has left may still be buffered, or fail
send_internal(p) ==
    IF Len(p.body) > MaxBody THEN {"too_long"}
    ELSE IF link THEN {"ok"}
    ELSE {"ok", "io"}

Written(p) ==
    /\ sent' = Append(sent, p)
    /\ srvq' = IF server = "conforming" THEN Append(srvq, p) ELSE srvq

Return(r) == pc' = "idle" /\ ret' = r

\* next_counter, set_request_id and the first send
exec_start(c) ==
    /\ pc = "idle"
    /\ execs' = execs + 1
    /\ LET id == next_counter(counter)
           p == Packet(id, TYPE_EXEC, c)
       IN  /\ counter' = id
           /\ original_id' = id
           /\ cmd' = c
           /\ request_id' = id
           /\ \E o \in send_internal(p) :
                \/ /\ o = "ok"
                   /\ sent' = <<p>>
                   /\ srvq' = IF server = "conforming" THEN Append(srvq, p) ELSE srvq
                   /\ pc' = "wait_first" /\ ret' = NoResult
                \/ /\ o = "too_long"
                   /\ sent' = <<>> /\ srvq' = srvq
                   /\ Return(Err("CommandTooLong", <<>>))
                \/ /\ o = "io"
                   /\ sent' = <<>> /\ srvq' = srvq
                   /\ Return(Err("IO", <<"write">>))
    /\ got' = <<>> /\ call_open' = TRUE /\ replied' = <<>> /\ tagged_read' = FALSE
    /\ UNCHANGED <<received_first_response, rx_close_connection, chan, handle_alive>>
    /\ UNCHANGED <<task_vars, inbox, link, server, split, frames_left>>

ExecStart(c) ==
    /\ UNCHANGED <<codec_vars, dial_vars>>
    /\ execs < MaxExecs
    /\ exec_start(c)
    /\ UNCHANGED sup_vars

\* get_response_impl: what recv() yields now, if anything.  None (every sender
\* gone, buffer empty) is the IO error "receiving task terminated"
CanRecv == chan # <<>> \/ rx_pc = "done"
Recv == IF chan # <<>> THEN Head(chan) ELSE Err("IO", <<"receiving task terminated">>)
AfterRecv == IF chan # <<>> THEN Tail(chan) ELSE chan

\* wait_for_first_packet, notified branch, then next_counter and the terminator
ExecFirstPacket ==
    /\ UNCHANGED <<codec_vars, dial_vars>>
    /\ pc = "wait_first"
    /\ received_first_response
    /\ received_first_response' = FALSE
    /\ LET id == next_counter(counter)
           p == Packet(id, TYPE_EXEC, <<>>)
       IN  /\ counter' = id
           /\ \E o \in send_internal(p) :
                \/ /\ o = "ok"
                   /\ Written(p)
                   /\ pc' = "get_response" /\ ret' = ret
                \/ /\ o = "io"
                   /\ UNCHANGED <<sent, srvq>>
                   /\ Return(Err("IO", <<"write">>))
    /\ UNCHANGED <<original_id, cmd, execs, request_id, rx_close_connection, chan, handle_alive>>
    /\ UNCHANGED <<task_vars, inbox, link, server, split, frames_left, got, call_open, replied, tagged_read>>
    /\ UNCHANGED sup_vars

\* wait_for_first_packet, channel branch: Ok is unreachable!(), Err is returned
ExecFirstError ==
    /\ UNCHANGED <<codec_vars, dial_vars>>
    /\ pc = "wait_first"
    /\ CanRecv
    /\ chan' = AfterRecv
    /\ IF Recv.ok THEN pc' = "panicked" /\ ret' = ret ELSE Return(Recv)
    /\ UNCHANGED <<counter, original_id, cmd, execs>>
    /\ UNCHANGED <<request_id, received_first_response, rx_close_connection, handle_alive>>
    /\ UNCHANGED <<task_vars, net_vars, hist_vars, sup_vars>>

\* get_response
ExecResponse ==
    /\ UNCHANGED <<codec_vars, dial_vars>>
    /\ pc = "get_response"
    /\ CanRecv
    /\ chan' = AfterRecv
    /\ Return(Recv)
    /\ UNCHANGED <<counter, original_id, cmd, execs>>
    /\ UNCHANGED <<request_id, received_first_response, rx_close_connection, handle_alive>>
    /\ UNCHANGED <<task_vars, net_vars, hist_vars, sup_vars>>

\* ------------------------------------------- SingleConnection::close, drop
\* ReceiverHandle::close up to task.await
close_start ==
    /\ pc = "idle"
    /\ rx_close_connection' = TRUE
    /\ pc' = "closing"
    /\ UNCHANGED <<counter, original_id, cmd, ret, execs>>
    /\ UNCHANGED <<request_id, received_first_response, chan, handle_alive>>
    /\ UNCHANGED <<task_vars, net_vars, hist_vars>>

Close == close_start /\ UNCHANGED <<sup_vars, codec_vars, dial_vars>>

\* task.await returns; self is dropped as close returns
CloseJoined ==
    /\ UNCHANGED <<codec_vars, dial_vars>>
    /\ pc = "closing"
    /\ rx_pc = "done"
    /\ pc' = "closed"
    /\ rx_close_connection' = TRUE
    /\ handle_alive' = FALSE
    /\ UNCHANGED <<counter, original_id, cmd, ret, execs>>
    /\ UNCHANGED <<request_id, received_first_response, chan>>
    /\ UNCHANGED <<task_vars, net_vars, hist_vars, sup_vars>>

\* the handle goes without notifying close_connection
DropHandle_silent ==
    /\ rx_close_connection' = rx_close_connection
    /\ handle_alive' = FALSE
    /\ chan' = <<>>

\* Drop for ReceiverHandle, and the mpsc Receiver dropped with it
DropHandle ==
    /\ rx_close_connection' = TRUE
    /\ handle_alive' = FALSE
    /\ chan' = <<>>

drop_connection ==
    /\ pc = "idle"
    /\ pc' = "dropped"
    /\ DropHandle
    /\ UNCHANGED <<counter, original_id, cmd, ret, execs>>
    /\ UNCHANGED <<request_id, received_first_response>>
    /\ UNCHANGED <<task_vars, net_vars, hist_vars>>

Drop == drop_connection /\ UNCHANGED <<sup_vars, codec_vars, dial_vars>>

\* ------------------------------------------------------------ Receiver Task
\* a body put in front of the result instead of behind it
receive_response_prepends(f, rid, e, r) ==
    IF ~Utf8Valid(f.body)
    THEN [out |-> "err", err |-> Err("UTFEncoding", <<>>), end_id |-> e, result |-> r, notify |-> FALSE]
    ELSE IF rid <= 0
    THEN [out |-> "continue", err |-> NoResult, end_id |-> e, result |-> r, notify |-> FALSE]
    ELSE IF f.id # rid /\ f.id # e
    THEN [out |-> "continue", err |-> NoResult, end_id |-> e, result |-> r, notify |-> FALSE]
    ELSE IF f.ty # TYPE_RESPONSE
    THEN [out |-> "err", err |-> Err("UnexpectedPacket", <<>>), end_id |-> e, result |-> r, notify |-> FALSE]
    ELSE LET e2 == IF e = -1 THEN next_counter(rid) ELSE e
         IN  IF f.id = e2
             THEN [out |-> "break", err |-> NoResult, end_id |-> e2, result |-> r, notify |-> (e = -1)]
             ELSE [out |-> "continue", err |-> NoResult, end_id |-> e2,
                   result |-> f.body \o r, notify |-> (e = -1)]

\* one iteration of receive_response's loop on frame f, with the request id
\* loaded for it, the local end_id e and the local result r
receive_response(f, rid, e, r) ==
    IF ~Utf8Valid(f.body)
    THEN [out |-> "err", err |-> Err("UTFEncoding", <<>>), end_id |-> e, result |-> r, notify |-> FALSE]
    ELSE IF rid <= 0
    THEN [out |-> "continue", err |-> NoResult, end_id |-> e, result |-> r, notify |-> FALSE]
    ELSE IF f.id # rid /\ f.id # e
    THEN [out |-> "continue", err |-> NoResult, end_id |-> e, result |-> r, notify |-> FALSE]
    ELSE IF f.ty # TYPE_RESPONSE
    THEN [out |-> "err", err |-> Err("UnexpectedPacket", <<>>), end_id |-> e, result |-> r, notify |-> FALSE]
    ELSE LET e2 == IF e = -1 THEN next_counter(rid) ELSE e
         IN  IF f.id = e2
             THEN [out |-> "break", err |-> NoResult, end_id |-> e2, result |-> r, notify |-> (e = -1)]
             ELSE [out |-> "continue", err |-> NoResult, end_id |-> e2,
                   result |-> r \o f.body, notify |-> (e = -1)]

InCall == pc \in {"wait_first", "get_response"}

\* receive_response returns r to receive_loop
Finish(r) ==
    /\ rx_pc' = "store"
    /\ response' = r
    /\ end_id' = -1
    /\ result' = <<>>
    /\ call_open' = FALSE

\* the select's read branch yields a frame
RxFrame ==
    /\ UNCHANGED <<codec_vars, dial_vars>>
    /\ rx_pc = "read"
    /\ inbox # <<>>
    /\ inbox' = Tail(inbox)
    /\ LET f == Head(inbox)
           s == receive_response(f, request_id, end_id, result)
       IN  /\ received_first_response' = (received_first_response \/ s.notify)
           /\ tagged_read' = (tagged_read \/ (InCall /\ f.id = original_id))
           /\ got' = IF InCall /\ call_open /\ Utf8Valid(f.body)
                        /\ f.ty = TYPE_RESPONSE /\ f.id = original_id
                     THEN got \o f.body ELSE got
           /\ IF s.out = "continue"
              THEN /\ end_id' = s.end_id
                   /\ result' = s.result
                   /\ UNCHANGED <<rx_pc, response, call_open>>
              ELSE Finish(IF s.out = "break" THEN Ok(s.result) ELSE s.err)
    /\ UNCHANGED <<conn_vars, request_id, rx_close_connection, chan, handle_alive>>
    /\ UNCHANGED <<link, srvq, server, split, frames_left, sent, replied, sup_vars>>

\* the select's read branch fails: the stream is down and drained
RxReadError ==
    /\ UNCHANGED <<codec_vars, dial_vars>>
    /\ rx_pc = "read"
    /\ inbox = <<>>
    /\ ~link
    /\ Finish(Err("IO", <<"read">>))
    /\ UNCHANGED <<conn_vars, handle_vars, net_vars, sent, got, replied, tagged_read, sup_vars>>

\* the select's shutdown branch: receive_loop stores -1 and returns
RxShutdown ==
    /\ UNCHANGED <<codec_vars, dial_vars>>
    /\ rx_pc = "read"
    /\ rx_close_connection
    /\ rx_close_connection' = FALSE
    /\ request_id' = -1
    /\ rx_pc' = "done"
    /\ UNCHANGED <<conn_vars, received_first_response, chan, handle_alive>>
    /\ UNCHANGED <<end_id, result, response, net_vars, hist_vars, sup_vars>>

\* sender.send: fails at once when the Receiver end is gone, else needs room
CanSend == ~handle_alive \/ Len(chan) < ChannelCapacity
Sent(r) == IF handle_alive THEN Append(chan, r) ELSE chan

\* receive_loop after receive_response: store -1, then send the response
RxStore ==
    /\ UNCHANGED <<codec_vars, dial_vars>>
    /\ rx_pc = "store"
    /\ request_id' = -1
    /\ IF CanSend
       THEN chan' = Sent(response) /\ rx_pc' = "read" /\ response' = NoResult
       ELSE rx_pc' = "send" /\ UNCHANGED <<chan, response>>
    /\ UNCHANGED <<conn_vars, received_first_response, rx_close_connection, handle_alive>>
    /\ UNCHANGED <<end_id, result, net_vars, hist_vars, sup_vars>>

\* sender.send blocked on a full channel gets room
RxSend ==
    /\ UNCHANGED <<codec_vars, dial_vars>>
    /\ rx_pc = "send"
    /\ CanSend
    /\ chan' = Sent(response)
    /\ rx_pc' = "read"
    /\ response' = NoResult
    /\ UNCHANGED <<conn_vars, request_id, received_first_response, rx_close_connection, handle_alive>>
    /\ UNCHANGED <<end_id, result, net_vars, hist_vars, sup_vars>>

\* ------------------------------------------------------------------ server
\* a server that sends whatever it likes
ServerSend(f) ==
    /\ UNCHANGED <<codec_vars, dial_vars>>
    /\ server = "arbitrary"
    /\ link
    /\ frames_left > 0
    /\ Len(inbox) < MaxInFlight
    /\ frames_left' = frames_left - 1
    /\ inbox' = Append(inbox, f)
    /\ UNCHANGED <<conn_vars, handle_vars, task_vars, link, srvq, server, split, hist_vars>>
    /\ UNCHANGED sup_vars

\* the peer resets or closes the stream
ServerReset ==
    /\ UNCHANGED <<codec_vars, dial_vars>>
    /\ link
    /\ link' = FALSE
    /\ UNCHANGED <<conn_vars, handle_vars, task_vars, inbox, srvq, server, split, frames_left, hist_vars>>
    /\ UNCHANGED sup_vars

RECURSIVE Concat(_)
Concat(bs) == IF bs = <<>> THEN <<>> ELSE Head(bs) \o Concat(Tail(bs))

\* a server that answers each command with `split` RESPONSE frames tagged with
\* the command's id, and an empty command (the terminator) with its echo
ServerAnswer ==
    /\ UNCHANGED <<codec_vars, dial_vars>>
    /\ server = "conforming"
    /\ link
    /\ srvq # <<>>
    /\ srvq' = Tail(srvq)
    /\ LET p == Head(srvq)
       IN  IF p.body = <<>>
           THEN /\ inbox' = Append(inbox, Packet(p.id, TYPE_RESPONSE, <<>>))
                /\ replied' = replied
           ELSE \E bs \in [1..split -> Bodies] :
                /\ inbox' = inbox \o [i \in 1..split |-> Packet(p.id, TYPE_RESPONSE, bs[i])]
                /\ replied' = Concat(bs)
    /\ UNCHANGED <<conn_vars, handle_vars, task_vars, link, server, split, frames_left>>
    /\ UNCHANGED <<sent, got, call_open, tagged_read, sup_vars>>

Receiver == RxFrame \/ RxReadError \/ RxShutdown \/ RxStore \/ RxSend

Next ==
    \/ \E c \in Cmds : ExecStart(c)
    \/ ExecFirstPacket
    \/ ExecFirstError
    \/ ExecResponse
    \/ Close
    \/ CloseJoined
    \/ Drop
    \/ Receiver
    \/ \E f \in ServerFrames : ServerSend(f)
    \/ ServerReset

Spec == Init /\ [][Next]_vars

\* the runtime polls every task that can make progress, and a select! picks
\* at random among its ready branches, so that a branch ready again and again
\* is taken; what the caller and the server choose to do next is theirs
Progress ==
    /\ WF_vars(RxFrame) /\ WF_vars(RxReadError) /\ SF_vars(RxShutdown)
    /\ WF_vars(RxStore) /\ WF_vars(RxSend)
    /\ WF_vars(ExecFirstPacket) /\ WF_vars(ExecFirstError) /\ WF_vars(ExecResponse)
    /\ WF_vars(CloseJoined)

FairSpec == Spec /\ Progress

\* one connection to a conforming server over a stream that stays up
GoodInit ==
    /\ FreshConnection
    /\ NoSupervisor
    /\ NoCodec
    /\ NoDial
    /\ execs = 0
    /\ server = "conforming"
    /\ split \in 0..MaxK
    /\ frames_left = 0

GoodNext ==
    \/ \E c \in Cmds : ExecStart(c)
    \/ ExecFirstPacket
    \/ ExecResponse
    \/ RxFrame
    \/ RxStore
    \/ ServerAnswer

GoodSpec ==
    /\ GoodInit /\ [][GoodNext]_vars
    /\ WF_vars(ExecFirstPacket) /\ WF_vars(ExecResponse)
    /\ WF_vars(RxFrame) /\ WF_vars(RxStore) /\ WF_vars(ServerAnswer)

\* --------------------------------------------------- ReconnectingConnection
\* ReconnectingConnection::open has returned: Connected, no Reconnect Task
SupInit ==
    /\ FreshConnection
    /\ NoCodec
    /\ NoDial
    /\ status = Connected /\ lock = "free" /\ sup_close_connection = FALSE
    /\ reconnect_loop = 0 /\ tasks = <<>>
    /\ sup_pc = "idle" /\ sup_ret = NoResult /\ sup_op = "none"
    /\ reachable = TRUE
    /\ execs = 0
    /\ server = "arbitrary"
    /\ split = 0
    /\ frames_left = MaxFrames

\* exec, status Connected: the mutex is taken and kept across connection.exec
SupExec(c) ==
    /\ UNCHANGED <<codec_vars, dial_vars>>
    /\ sup_pc = "idle"
    /\ lock = "free"
    /\ status.tag = "Connected"
    /\ execs < MaxCalls
    /\ exec_start(c)
    /\ lock' = "caller"
    /\ sup_pc' = "in_exec"
    /\ sup_ret' = NoResult
    /\ sup_op' = "none"
    /\ UNCHANGED <<status, sup_close_connection, reconnect_loop, tasks, reachable>>

\* the reason is left behind
busy_without_reason(st) == Err("BusyReconnecting", <<>>)

\* Disconnected(msg) => return Err(BusyReconnecting(msg.clone()))
busy(st) == Err("BusyReconnecting", st.reason)

\* exec, status Disconnected, goes on to spawn a Reconnect Task
SupExecBusy_respawns ==
    /\ UNCHANGED <<codec_vars, dial_vars>>
    /\ sup_pc = "idle"
    /\ lock = "free"
    /\ status.tag = "Disconnected"
    /\ execs < MaxCalls
    /\ execs' = execs + 1
    /\ sup_ret' = busy(status)
    /\ sup_op' = "busy"
    /\ tasks' = Append(tasks, "open")
    /\ reconnect_loop' = Len(tasks) + 1
    /\ UNCHANGED <<counter, pc, original_id, cmd, ret>>
    /\ UNCHANGED <<handle_vars, task_vars, net_vars, hist_vars>>
    /\ UNCHANGED <<status, lock, sup_close_connection, sup_pc, reachable>>

\* exec, status Disconnected: the mutex is taken and released again
SupExecBusy ==
    /\ UNCHANGED <<codec_vars, dial_vars>>
    /\ sup_pc = "idle"
    /\ lock = "free"
    /\ status.tag = "Disconnected"
    /\ execs < MaxCalls
    /\ execs' = execs + 1
    /\ sup_ret' = busy(status)
    /\ sup_op' = "busy"
    /\ UNCHANGED <<counter, pc, original_id, cmd, ret>>
    /\ UNCHANGED <<handle_vars, task_vars, net_vars, hist_vars>>
    /\ UNCHANGED <<status, lock, sup_close_connection, reconnect_loop, tasks, sup_pc, reachable>>

\* no error starts a reconnect
promotes_nothing(r) == FALSE

\* every error starts a reconnect
promotes_any_error(r) == ~r.ok

\* if let Err(IO(_)) = result
promotes(r) == ~r.ok /\ r.kind = "IO"

\* connection.exec has returned: the mutex is released and the result looked at
SupExecDone ==
    /\ UNCHANGED <<codec_vars, dial_vars>>
    /\ sup_pc = "in_exec"
    /\ pc = "idle"
    /\ lock' = "free"
    /\ IF promotes(ret)
       THEN sup_pc' = "start_reconnect" /\ UNCHANGED <<sup_ret, sup_op>>
       ELSE sup_pc' = "idle" /\ sup_ret' = ret /\ sup_op' = "passed"
    /\ UNCHANGED <<conn_vars, handle_vars, task_vars, net_vars, hist_vars>>
    /\ UNCHANGED <<status, sup_close_connection, reconnect_loop, tasks, reachable>>

\* start_reconnect: the status is replaced, which drops the old connection, the
\* Reconnect Task is spawned and BusyReconnecting returned
StartReconnect ==
    /\ UNCHANGED <<codec_vars, dial_vars>>
    /\ sup_pc = "start_reconnect"
    /\ lock = "free"
    /\ status' = Disconnected(to_string(ret))
    /\ drop_connection
    /\ tasks' = Append(tasks, "open")
    /\ reconnect_loop' = Len(tasks) + 1
    /\ sup_ret' = Err("BusyReconnecting", to_string(ret))
    /\ sup_op' = "promoted"
    /\ sup_pc' = "idle"
    /\ UNCHANGED <<lock, sup_close_connection, reachable>>

\* close: the status is swapped for Stopped under the mutex; a connection that
\* was held is closed with the mutex still held
SupClose ==
    /\ UNCHANGED <<codec_vars, dial_vars>>
    /\ sup_pc = "idle"
    /\ lock = "free"
    /\ status' = Stopped
    /\ IF status.tag = "Connected"
       THEN /\ close_start
            /\ lock' = "caller"
            /\ sup_pc' = "closing"
            /\ UNCHANGED sup_close_connection
       ELSE /\ sup_close_connection' = TRUE
            /\ sup_pc' = "joining"
            /\ UNCHANGED <<conn_vars, handle_vars, task_vars, net_vars, hist_vars, lock>>
    /\ UNCHANGED <<reconnect_loop, tasks, sup_ret, sup_op, reachable>>

\* close: connection.close() has returned; the mutex is released and the
\* Reconnect Task notified
SupCloseNotify ==
    /\ UNCHANGED <<codec_vars, dial_vars>>
    /\ sup_pc = "closing"
    /\ pc = "closed"
    /\ lock' = "free"
    /\ sup_close_connection' = TRUE
    /\ sup_pc' = "joining"
    /\ UNCHANGED <<conn_vars, handle_vars, task_vars, net_vars, hist_vars>>
    /\ UNCHANGED <<status, reconnect_loop, tasks, sup_ret, sup_op, reachable>>

\* close: the handle, if there is one, has been awaited
SupCloseJoined ==
    /\ UNCHANGED <<codec_vars, dial_vars>>
    /\ sup_pc = "joining"
    /\ reconnect_loop # 0 => tasks[reconnect_loop] = "done"
    /\ sup_pc' = "closed"
    /\ UNCHANGED <<conn_vars, handle_vars, task_vars, net_vars, hist_vars>>
    /\ UNCHANGED <<status, lock, sup_close_connection, reconnect_loop, tasks, sup_ret, sup_op,
                   reachable>>

\* ----------------------------------------------------------- Reconnect Task
\* SingleConnection::open returns Ok: a new connection and its Receiver Task
open_connection ==
    /\ counter' = 0 /\ pc' = "idle" /\ original_id' = 0 /\ cmd' = <<>> /\ ret' = NoResult
    /\ request_id' = -1
    /\ received_first_response' = FALSE /\ rx_close_connection' = FALSE
    /\ chan' = <<>> /\ handle_alive' = TRUE
    /\ rx_pc' = "read" /\ end_id' = -1 /\ result' = <<>> /\ response' = NoResult
    /\ inbox' = <<>> /\ link' = TRUE /\ srvq' = <<>>
    /\ sent' = <<>> /\ got' = <<>> /\ call_open' = FALSE /\ replied' = <<>>
    /\ tagged_read' = FALSE
    /\ UNCHANGED <<execs, server, split, frames_left>>

\* the first select!, branch `Ok(c) = connection`, up to status.lock().await
TaskOpened(t) ==
    /\ UNCHANGED <<codec_vars, dial_vars>>
    /\ t \in 1..Len(tasks)
    /\ tasks[t] = "open"
    /\ reachable
    /\ pc = "dropped"
    /\ open_connection
    /\ tasks' = [tasks EXCEPT ![t] = "locking"]
    /\ UNCHANGED <<status, lock, sup_close_connection, reconnect_loop, sup_pc, sup_ret, sup_op,
                   reachable>>

\* the first select!, open returns Err: the pattern Ok(c) does not match, which
\* disables that branch; the select! goes on waiting for close_connection, and
\* its else arm would need that branch disabled too
TaskOpenFailed(t) ==
    /\ UNCHANGED <<codec_vars, dial_vars>>
    /\ t \in 1..Len(tasks)
    /\ tasks[t] = "open"
    /\ ~reachable
    /\ tasks' = [tasks EXCEPT ![t] = "wait_close"]
    /\ UNCHANGED <<conn_vars, handle_vars, task_vars, net_vars, hist_vars>>
    /\ UNCHANGED <<status, lock, sup_close_connection, reconnect_loop, sup_pc, sup_ret, sup_op,
                   reachable>>

\* the first select!, branch `_ = close_connection`
TaskNotified(t) ==
    /\ UNCHANGED <<codec_vars, dial_vars>>
    /\ t \in 1..Len(tasks)
    /\ tasks[t] \in {"open", "wait_close"}
    /\ sup_close_connection
    /\ sup_close_connection' = FALSE
    /\ tasks' = [tasks EXCEPT ![t] = "done"]
    /\ UNCHANGED <<conn_vars, handle_vars, task_vars, net_vars, hist_vars>>
    /\ UNCHANGED <<status, lock, reconnect_loop, sup_pc, sup_ret, sup_op, reachable>>

\* the new connection is installed whatever the status is
installs_always(st) == TRUE

\* match *lock { Stopped => c.close().await, _ => *lock = Connected(c) }
installs(st) == st.tag # "Stopped"

\* the mutex is acquired with the new connection in hand
TaskLocked(t) ==
    /\ UNCHANGED <<codec_vars, dial_vars>>
    /\ t \in 1..Len(tasks)
    /\ tasks[t] = "locking"
    /\ lock = "free"
    /\ IF installs(status)
       THEN /\ status' = Connected
            /\ tasks' = [tasks EXCEPT ![t] = "done"]
            /\ UNCHANGED <<conn_vars, handle_vars, task_vars, net_vars, hist_vars, lock>>
       ELSE /\ close_start
            /\ lock' = "task"
            /\ tasks' = [tasks EXCEPT ![t] = "closing"]
            /\ UNCHANGED status
    /\ UNCHANGED <<sup_close_connection, reconnect_loop, sup_pc, sup_ret, sup_op, reachable>>

\* c.close() has returned: the mutex is released and the task returns
TaskClosed(t) ==
    /\ UNCHANGED <<codec_vars, dial_vars>>
    /\ t \in 1..Len(tasks)
    /\ tasks[t] = "closing"
    /\ pc = "closed"
    /\ lock' = "free"
    /\ tasks' = [tasks EXCEPT ![t] = "done"]
    /\ UNCHANGED <<conn_vars, handle_vars, task_vars, net_vars, hist_vars>>
    /\ UNCHANGED <<status, sup_close_connection, reconnect_loop, sup_pc, sup_ret, sup_op,
                   reachable>>

\* the server stops, or starts again, accepting connections
ServerDown ==
    /\ UNCHANGED <<codec_vars, dial_vars>>
    /\ reachable
    /\ reachable' = FALSE
    /\ UNCHANGED <<conn_vars, handle_vars, task_vars, net_vars, hist_vars>>
    /\ UNCHANGED <<status, lock, sup_close_connection, reconnect_loop, tasks, sup_pc, sup_ret,
                   sup_op>>

ServerUp ==
    /\ UNCHANGED <<codec_vars, dial_vars>>
    /\ ~reachable
    /\ reachable' = TRUE
    /\ UNCHANGED <<conn_vars, handle_vars, task_vars, net_vars, hist_vars>>
    /\ UNCHANGED <<status, lock, sup_close_connection, reconnect_loop, tasks, sup_pc, sup_ret,
                   sup_op>>

\* what the server sends a supervised connection: a fragment or an echo for
\* any id, a frame of the wrong kind, a body that is no UTF-8
SupFrames ==
    {Packet(i, TYPE_RESPONSE, <<97>>) : i \in 1..IntMax}
    \cup {Packet(1, TYPE_EXEC, <<>>), Packet(1, TYPE_RESPONSE, <<BadByte>>)}

SupCmds == {c \in Cmds : c # <<>>}

SupNext ==
    \/ \E c \in SupCmds : SupExec(c)
    \/ SupExecBusy
    \/ ExecFirstPacket
    \/ ExecFirstError
    \/ ExecResponse
    \/ SupExecDone
    \/ StartReconnect
    \/ SupClose
    \/ CloseJoined
    \/ SupCloseNotify
    \/ SupCloseJoined
    \/ \E t \in 1..Len(tasks) : TaskOpened(t)
    \/ \E t \in 1..Len(tasks) : TaskOpenFailed(t)
    \/ \E t \in 1..Len(tasks) : TaskNotified(t)
    \/ \E t \in 1..Len(tasks) : TaskLocked(t)
    \/ \E t \in 1..Len(tasks) : TaskClosed(t)
    \/ Receiver
    \/ \E f \in SupFrames : ServerSend(f)
    \/ ServerReset
    \/ ServerDown
    \/ ServerUp

SupSpec == SupInit /\ [][SupNext]_vars

FairSupSpec ==
    /\ SupSpec
    /\ Progress
    /\ WF_vars(SupExecDone) /\ WF_vars(StartReconnect)
    /\ WF_vars(SupCloseNotify) /\ WF_vars(SupCloseJoined)
    /\ \A t \in 1..MaxCalls :
        /\ WF_vars(TaskOpened(t)) /\ WF_vars(TaskOpenFailed(t)) /\ SF_vars(TaskNotified(t))
        /\ WF_vars(TaskLocked(t)) /\ WF_vars(TaskClosed(t))

\* ------------------------------------------------------ SingleConnection::open
\* the reply to AUTH is taken for a success whatever its id
open_reply_ignores_id(f) ==
    IF ~Utf8Valid(f.body) THEN Err("UTFEncoding", <<>>)
    ELSE IF f.ty # TYPE_AUTH_RESPONSE THEN Err("UnexpectedPacket", <<>>)
    ELSE Ok(<<>>)

\* what open makes of the one frame it reads after AUTH: the kind is looked at
\* before the id
open_reply(f) ==
    IF ~Utf8Valid(f.body) THEN Err("UTFEncoding", <<>>)
    ELSE IF f.ty # TYPE_AUTH_RESPONSE THEN Err("UnexpectedPacket", <<>>)
    ELSE IF f.id = -1 THEN Err("PasswordIncorrect", <<>>)
    ELSE Ok(<<>>)

\* "p", and a password over the ceiling
Passwords == {[i \in 1..n |-> 112] : n \in {1, MaxBody + 1}}

\* replies a server may give to AUTH
AuthReplies == {Packet(i, k, <<>>) : i \in {-1, 0, 1}, k \in {TYPE_AUTH_RESPONSE, TYPE_RESPONSE}}

\* try_connect has returned a stream; nothing is written yet and there is no
\* Receiver Task
OpenInit ==
    /\ counter = 0 /\ pc = "opening" /\ original_id = 0 /\ cmd = <<>> /\ ret = NoResult
    /\ request_id = -1
    /\ received_first_response = FALSE /\ rx_close_connection = FALSE
    /\ chan = <<>> /\ handle_alive = TRUE
    /\ rx_pc = "unspawned" /\ end_id = -1 /\ result = <<>> /\ response = NoResult
    /\ inbox = <<>> /\ link = TRUE /\ srvq = <<>>
    /\ sent = <<>> /\ got = <<>> /\ call_open = FALSE /\ replied = <<>>
    /\ tagged_read = FALSE
    /\ NoSupervisor
    /\ NoCodec
    /\ NoDial
    /\ execs = 0
    /\ server = "arbitrary"
    /\ split = 0
    /\ frames_left = MaxFrames

OpenFails(r) == pc' = "open_failed" /\ ret' = r

\* Packet::new(0, TYPE_AUTH, pass).send_internal
OpenAuth(pass) ==
    /\ pc = "opening"
    /\ LET p == Packet(0, TYPE_AUTH, pass)
       IN  \E o \in send_internal(p) :
            \/ /\ o = "ok"
               /\ sent' = <<p>> /\ pc' = "auth_sent" /\ ret' = ret
            \/ /\ o = "too_long"
               /\ sent' = sent /\ OpenFails(Err("CommandTooLong", <<>>))
            \/ /\ o = "io"
               /\ sent' = sent /\ OpenFails(Err("IO", <<"write">>))
    /\ UNCHANGED <<counter, original_id, cmd, execs, handle_vars, task_vars, net_vars>>
    /\ UNCHANGED <<got, call_open, replied, tagged_read, sup_vars, codec_vars, dial_vars>>

\* the server answers the AUTH frame
AuthReply(f) ==
    /\ pc = "auth_sent"
    /\ link
    /\ Len(inbox) < MaxInFlight
    /\ inbox' = Append(inbox, f)
    /\ UNCHANGED <<conn_vars, handle_vars, task_vars, link, srvq, server, split, frames_left>>
    /\ UNCHANGED <<hist_vars, sup_vars, codec_vars, dial_vars>>

\* Packet::read, the two checks, and ReceiverHandle::new when they pass
OpenRead ==
    /\ pc = "auth_sent"
    /\ inbox # <<>>
    /\ inbox' = Tail(inbox)
    /\ LET r == open_reply(Head(inbox))
       IN  IF r.ok
           THEN pc' = "idle" /\ rx_pc' = "read" /\ ret' = ret
           ELSE OpenFails(r) /\ rx_pc' = rx_pc
    /\ UNCHANGED <<counter, original_id, cmd, execs, handle_vars, end_id, result, response>>
    /\ UNCHANGED <<link, srvq, server, split, frames_left, hist_vars, sup_vars, codec_vars, dial_vars>>

\* Packet::read fails: the stream is down and drained
OpenReadError ==
    /\ pc = "auth_sent"
    /\ inbox = <<>>
    /\ ~link
    /\ OpenFails(Err("IO", <<"read">>))
    /\ UNCHANGED <<counter, original_id, cmd, execs, handle_vars, task_vars, net_vars>>
    /\ UNCHANGED <<hist_vars, sup_vars, codec_vars, dial_vars>>

OpenNext ==
    \/ \E pass \in Passwords : OpenAuth(pass)
    \/ \E f \in AuthReplies : AuthReply(f)
    \/ OpenRead
    \/ OpenReadError
    \/ Next

OpenSpec == OpenInit /\ [][OpenNext]_vars

\* ------------------------------------------- Packet::send_internal and read
\* write_i32::<LittleEndian>: the four bytes of the two's complement of x
write_i32(x) ==
    LET y == IF x >= 0 THEN x ELSE (x + 2147483647) + 1
    IN  <<y % 256, (y \div 256) % 256, (y \div 65536) % 256,
          (y \div 16777216) + (IF x >= 0 THEN 0 ELSE 128)>>

\* read_i32::<LittleEndian>
read_i32(b) ==
    IF b[4] < 128
    THEN b[1] + 256 * b[2] + 65536 * b[3] + 16777216 * b[4]
    ELSE ((b[1] + 256 * b[2] + 65536 * b[3] + 16777216 * (b[4] - 128)) - 2147483647) - 1

\* the length written is one short
packet_buffer_short_length(p) ==
    write_i32(Len(p.body) + 9) \o write_i32(p.id) \o write_i32(p.ty) \o p.body \o <<0, 0>>

\* the bytes send_internal writes once the length check has passed
packet_buffer(p) ==
    write_i32(Len(p.body) + 10) \o write_i32(p.id) \o write_i32(p.ty) \o p.body \o <<0, 0>>

\* Packet::read on the bytes bs of a stream that then ends: a short length
\* field is an IO error, a slice out of the buffer's range a panic
read(bs) ==
    IF Len(bs) < 4 THEN Err("IO", <<"read">>)
    ELSE LET len == read_i32(SubSeq(bs, 1, 4))
         IN  IF len < 0 THEN Err("panic", <<>>)
             ELSE LET buf == SubSeq(bs, 5, IF Len(bs) - 4 < len THEN Len(bs) ELSE 4 + len)
                  IN  IF Len(buf) < 8 \/ len - 2 < 8 \/ len - 2 > Len(buf)
                      THEN Err("panic", <<>>)
                      ELSE LET body == SubSeq(buf, 9, len - 2)
                           IN  IF Utf8Valid(body)
                               THEN Ok(Packet(read_i32(SubSeq(buf, 1, 4)),
                                              read_i32(SubSeq(buf, 5, 8)), body))
                               ELSE Err("UTFEncoding", <<>>)

\* int32 values: the extremes, the values around a byte's carry, 0x12345678
CodecInts == {(-2147483647) - 1, -1, 0, 1, 255, 256, 305419896, 2147483647}
\* NUL, "a", the two bytes of U+00E9, a byte that is no UTF-8
CodecBytes == {0, 97, 195, 169, BadByte}
CodecBodies == UNION {[1..n -> CodecBytes] : n \in 0..(MaxBody + 1)}

CodecInit ==
    /\ FreshConnection
    /\ NoSupervisor
    /\ execs = 0
    /\ server = "arbitrary"
    /\ split = 0
    /\ frames_left = 0
    /\ NoDial
    /\ codec_pc = "new"
    /\ packet \in {Packet(i, k, b) : i \in CodecInts, k \in CodecInts, b \in CodecBodies}
    /\ wire = <<>>
    /\ decoded = NoResult

\* send_internal into a buffer
Encode ==
    /\ codec_pc = "new"
    /\ IF "too_long" \in send_internal(packet)
       THEN codec_pc' = "refused" /\ wire' = wire
       ELSE codec_pc' = "written" /\ wire' = packet_buffer(packet)
    /\ UNCHANGED <<packet, decoded>>
    /\ UNCHANGED <<conn_vars, handle_vars, task_vars, net_vars, hist_vars, sup_vars, dial_vars>>

\* Packet::read from that buffer
Decode ==
    /\ codec_pc = "written"
    /\ decoded' = read(wire)
    /\ codec_pc' = "read"
    /\ UNCHANGED <<packet, wire>>
    /\ UNCHANGED <<conn_vars, handle_vars, task_vars, net_vars, hist_vars, sup_vars, dial_vars>>

CodecNext == Encode \/ Decode

CodecSpec == CodecInit /\ [][CodecNext]_vars

\* ------------------------------------------------------------- try_connect
Families == {"V4", "V6"}
\* what connecting to a candidate comes to within the timeout
Outcomes == {"connects", "refused", "timeout"}

\* what lookup_host may yield: an error, or up to MaxAddrs addresses in any
\* order, each tagged with its place in that order
Lookups ==
    {[ok |-> FALSE, addrs |-> <<>>]}
    \cup UNION {{[ok |-> TRUE,
                  addrs |-> [i \in 1..n |-> [family |-> f[i], outcome |-> o[i], at |-> i]]] :
                    f \in [1..n -> Families], o \in [1..n -> Outcomes]} : n \in 0..MaxAddrs}

IsV4(a) == a.family = "V4"
IsV6(a) == a.family = "V6"

\* addrs.sort_by_key(V4 => 0, V6 => 1): a stable sort
sort_by_key(as) == SelectSeq(as, IsV4) \o SelectSeq(as, IsV6)

DialInit ==
    /\ FreshConnection
    /\ NoSupervisor
    /\ NoCodec
    /\ execs = 0
    /\ server = "arbitrary"
    /\ split = 0
    /\ frames_left = 0
    /\ dial_pc = "resolve"
    /\ lookup \in Lookups
    /\ addrs = <<>> /\ error = NoResult /\ tries = <<>> /\ dial_ret = NoResult

NoConnection ==
    UNCHANGED <<conn_vars, handle_vars, task_vars, net_vars, hist_vars, sup_vars, codec_vars>>

\* lookup_host(address).await?.collect() and the sort
Resolve ==
    /\ dial_pc = "resolve"
    /\ IF lookup.ok
       THEN /\ addrs' = sort_by_key(lookup.addrs)
            /\ dial_pc' = "loop"
            /\ dial_ret' = dial_ret
       ELSE /\ addrs' = addrs
            /\ dial_pc' = "done"
            /\ dial_ret' = Err("IO", <<"lookup">>)
    /\ UNCHANGED <<lookup, error, tries>>
    /\ NoConnection

\* Ok(Ok(stream)) => return Ok(stream)
Connects ==
    /\ dial_pc = "loop"
    /\ addrs # <<>>
    /\ Head(addrs).outcome = "connects"
    /\ tries' = Append(tries, Head(addrs))
    /\ dial_ret' = Ok(<<Head(addrs).at>>)
    /\ dial_pc' = "done"
    /\ UNCHANGED <<lookup, addrs, error>>
    /\ NoConnection

\* Ok(Err(e)) => error = Some(e.into())
ConnectFails ==
    /\ dial_pc = "loop"
    /\ addrs # <<>>
    /\ Head(addrs).outcome = "refused"
    /\ tries' = Append(tries, Head(addrs))
    /\ error' = Err("IO", <<"connect", Head(addrs).at>>)
    /\ addrs' = Tail(addrs)
    /\ UNCHANGED <<lookup, dial_pc, dial_ret>>
    /\ NoConnection

\* Err(_) => continue: the timeout expired
TimesOut ==
    /\ dial_pc = "loop"
    /\ addrs # <<>>
    /\ Head(addrs).outcome = "timeout"
    /\ tries' = Append(tries, Head(addrs))
    /\ addrs' = Tail(addrs)
    /\ UNCHANGED <<lookup, error, dial_pc, dial_ret>>
    /\ NoConnection

\* Err(error.unwrap_or_else(|| IO(AddrNotAvailable)))
GiveUp ==
    /\ dial_pc = "loop"
    /\ addrs = <<>>
    /\ dial_ret' = IF error = NoResult THEN Err("IO", <<"Could not resolve rcon host addr">>)
                   ELSE error
    /\ dial_pc' = "done"
    /\ UNCHANGED <<lookup, addrs, error, tries>>
    /\ NoConnection

DialNext == Resolve \/ Connects \/ ConnectFails \/ TimesOut \/ GiveUp

DialSpec == DialInit /\ [][DialNext]_vars

\* ------------------------------------------------------------------ claims
\* C1: an exec that returns Ok(s) returns exactly the bodies, in arrival order,
\* of the RESPONSE frames tagged original_id that the Receiver Task read during
\* the call before the response was completed
C1_ResultIsTaggedBodies == ret.ok => ret.val = got

\* C8: SingleConnection::close, once called, eventually returns
C8_CloseReturns == (pc = "closing") ~> (pc = "closed")

\* C9 as claimed, k = 0 included: against a conforming server every exec whose
\* command was written eventually returns Ok with the server's bodies in order
C9_EveryK ==
    \A n \in 1..MaxExecs :
        (pc = "wait_first" /\ execs = n) ~> (pc = "idle" /\ execs = n /\ ret = Ok(replied))

\* C9 amended: the same for a server that splits each reply into k >= 1 frames
C9_AtLeastOneFrame ==
    \A n \in 1..MaxExecs :
        (split >= 1 /\ pc = "wait_first" /\ execs = n)
            ~> (pc = "idle" /\ execs = n /\ ret = Ok(replied))

C9_Witness == split >= 2 /\ pc = "idle" /\ execs = 2 /\ ret = Ok(replied) /\ Len(replied) = split

\* C10 as claimed: an exec that returns Ok wrote EXEC(original_id, cmd) and
\* then one terminator EXEC(end_id, "") with end_id > original_id
C10_TerminatorIdGreater ==
    ret.ok =>
        /\ Len(sent) = 2
        /\ sent[1] = Packet(original_id, TYPE_EXEC, cmd)
        /\ sent[2] = Packet(sent[2].id, TYPE_EXEC, <<>>)
        /\ sent[2].id > original_id

\* C10 amended: the terminator's id is original_id + 1, except that it is 1
\* when original_id is the largest id
C10_TerminatorIdNext ==
    ret.ok =>
        /\ Len(sent) = 2
        /\ sent[1] = Packet(original_id, TYPE_EXEC, cmd)
        /\ sent[2] = Packet(sent[2].id, TYPE_EXEC, <<>>)
        /\ original_id >= 1
        /\ sent[2].id = IF original_id = IntMax THEN 1 ELSE original_id + 1

C10_Witness == ret.ok /\ original_id = IntMax /\ Len(sent) = 2 /\ sent[2].id = 1


ExecReturns == sup_pc \in {"in_exec", "start_reconnect"} /\ sup_pc' = "idle"

\* C2: when the delegated exec has failed with an IO error, then as exec
\* returns the status is Disconnected(that error's description), a Reconnect
\* Task has been spawned and the caller gets BusyReconnecting(description);
\* and exec never returns an IO error
C2_FailurePromotion ==
    [][/\ (ExecReturns /\ ~ret.ok /\ ret.kind = "IO") =>
            /\ status' = Disconnected(<<"IO">> \o ret.msg)
            /\ sup_ret' = Err("BusyReconnecting", <<"IO">> \o ret.msg)
            /\ Len(tasks') = Len(tasks) + 1
            /\ tasks'[Len(tasks')] = "open"
            /\ reconnect_loop' = Len(tasks')
       /\ sup_ret'.kind # "IO"]_vars

C2_Witness ==
    /\ sup_pc = "idle" /\ sup_op = "promoted"
    /\ status = Disconnected(<<"IO", "read">>)
    /\ sup_ret = Err("BusyReconnecting", <<"IO", "read">>)
    /\ tasks # <<>> /\ tasks[Len(tasks)] = "open"

\* C3: after an exec has failed with an IO error and started the Reconnect
\* Task, if close is never called and the server is reachable from some point
\* on, the status eventually becomes Connected
C3_EventuallyReconnected ==
    (<>[]reachable /\ [](sup_pc \in {"idle", "in_exec", "start_reconnect"}))
        => [](status.tag = "Disconnected" => <>(status.tag = "Connected"))

\* C4: exec called while the status is Disconnected(reason) returns
\* BusyReconnecting(reason), writes no frame, leaves the status as it is and
\* spawns no Reconnect Task
C4_BusyWhileDisconnected ==
    [][(status.tag = "Disconnected" /\ sup_pc = "idle" /\ execs' # execs) =>
            /\ sup_ret' = Err("BusyReconnecting", status.reason)
            /\ sup_pc' = "idle"
            /\ status' = status
            /\ tasks' = tasks /\ reconnect_loop' = reconnect_loop
            /\ sent' = sent /\ srvq' = srvq /\ counter' = counter]_vars

C4_Witness ==
    /\ sup_op = "busy" /\ status.tag = "Disconnected" /\ status.reason # <<>>
    /\ sup_ret = Err("BusyReconnecting", status.reason)

\* C5: when the delegated exec fails with CommandTooLong, UTFEncoding or
\* UnexpectedPacket, exec returns that error, the status stays Connected with
\* the same connection and no Reconnect Task is spawned
C5_OtherErrorsPassThrough ==
    [][(ExecReturns /\ ~ret.ok
            /\ ret.kind \in {"CommandTooLong", "UTFEncoding", "UnexpectedPacket"}) =>
            /\ sup_ret' = ret
            /\ status = Connected /\ status' = Connected
            /\ pc' = "idle" /\ handle_alive' /\ counter' = counter
            /\ tasks' = tasks /\ reconnect_loop' = reconnect_loop]_vars

C5_Witness ==
    /\ sup_pc = "idle" /\ sup_op = "passed" /\ status = Connected
    /\ sup_ret = Err("UnexpectedPacket", <<>>)

\* C6: once the status is Stopped it stays Stopped, and a Reconnect Task that
\* gets the mutex with a new connection when the status is Stopped closes that
\* connection
C6_StoppedIsFinal ==
    [][/\ status.tag = "Stopped" => status'.tag = "Stopped"
       /\ \A t \in 1..Len(tasks) :
            (tasks[t] = "locking" /\ tasks'[t] # "locking" /\ status.tag = "Stopped")
                => (tasks'[t] = "closing" /\ pc' = "closing")]_vars

C6_Witness == \E t \in 1..Len(tasks) : tasks[t] = "closing" /\ status = Stopped

\* C7: ReconnectingConnection::close, once called, eventually returns
C7_CloseReturns == (sup_pc \in {"closing", "joining"}) ~> (sup_pc = "closed")

\* C11: every id exec allocates is in 1..int32::MAX: each allocation moves the
\* counter to its successor, or from int32::MAX to 1, the new original_id is
\* the counter, and every frame written carries such an id
C11_IdsInRange ==
    [][/\ counter' # counter =>
            /\ counter' \in 1..IntMax
            /\ counter' = IF counter = IntMax THEN 1 ELSE counter + 1
       /\ original_id' # original_id => original_id' = counter'
       /\ \A i \in 1..Len(sent') : sent'[i].id \in 1..IntMax
       /\ execs' >= 1 => counter' \in 1..IntMax]_vars

C11_Witness ==
    /\ execs = 2 /\ original_id = 1 /\ counter = 1
    /\ sent = <<Packet(1, TYPE_EXEC, cmd)>> /\ pc = "wait_first"

\* C12 as claimed: a reply to AUTH that carries id -1, whatever its kind, makes
\* open fail with PasswordIncorrect; after a failed open no Receiver Task runs
\* and no frame is written
C12_MinusOneAnyKind ==
    [][/\ (pc = "auth_sent" /\ inbox # <<>> /\ inbox' = Tail(inbox) /\ Head(inbox).id = -1) =>
            /\ pc' = "open_failed" /\ ret' = Err("PasswordIncorrect", <<>>)
       /\ pc = "open_failed" => (pc' = "open_failed" /\ sent' = sent /\ rx_pc' = "unspawned")]_vars

\* C12 amended: a reply that carries id -1 makes open fail, with
\* PasswordIncorrect when its kind is AUTH_RESPONSE and with UnexpectedPacket
\* when it is not; after a failed open no Receiver Task runs and no frame is
\* written
C12_MinusOneAuthResponse ==
    [][/\ (pc = "auth_sent" /\ inbox # <<>> /\ inbox' = Tail(inbox) /\ Head(inbox).id = -1) =>
            /\ pc' = "open_failed"
            /\ rx_pc' = "unspawned"
            /\ sent' = sent
            /\ ret' = IF Head(inbox).ty = TYPE_AUTH_RESPONSE
                      THEN Err("PasswordIncorrect", <<>>)
                      ELSE Err("UnexpectedPacket", <<>>)
       /\ pc = "open_failed" => (pc' = "open_failed" /\ sent' = sent /\ rx_pc' = "unspawned")]_vars

C12_Witness ==
    /\ pc = "open_failed" /\ ret = Err("PasswordIncorrect", <<>>)
    /\ sent = <<Packet(0, TYPE_AUTH, <<112>>)>> /\ rx_pc = "unspawned" /\ inbox = <<>>

\* C13: a frame is encoded if and only if its body is at most the ceiling
\* long; exec with a longer command returns CommandTooLong having written
\* nothing, and with a command at most that long over a stream that is up
\* writes EXEC(original_id, command)
C13_TooLongWritesNothing ==
    [][/\ (pc = "idle" /\ execs' = execs + 1) =>
            /\ (ret'.kind = "CommandTooLong") <=> (Len(cmd') > MaxBody)
            /\ Len(cmd') > MaxBody => (sent' = <<>> /\ srvq' = srvq /\ inbox' = inbox /\ pc' = "idle")
            /\ (Len(cmd') <= MaxBody /\ link) =>
                    (sent' = <<Packet(original_id', TYPE_EXEC, cmd')>> /\ pc' = "wait_first")
       /\ (execs' = execs /\ ret'.kind = "CommandTooLong") => ret.kind = "CommandTooLong"]_vars

C13_Witness ==
    /\ pc = "idle" /\ execs = 2 /\ Len(cmd) = MaxBody + 1
    /\ ret = Err("CommandTooLong", <<>>) /\ sent = <<>>

\* C14: a frame with a valid UTF-8 body within the ceiling is written as the
\* little-endian length n + 10, id and kind, the body and two zero bytes, and
\* reading those bytes back gives the frame; a frame is refused only for a body
\* over the ceiling
C14_RoundTrip ==
    /\ (codec_pc = "read" /\ Utf8Valid(packet.body)) => decoded = Ok(packet)
    /\ codec_pc \in {"written", "read"} =>
            /\ Len(packet.body) <= MaxBody
            /\ Len(wire) = Len(packet.body) + 14
            /\ SubSeq(wire, 1, 4) = <<Len(packet.body) + 10, 0, 0, 0>>
            /\ SubSeq(wire, 13, Len(wire)) = packet.body \o <<0, 0>>
            /\ packet.id = 305419896 => SubSeq(wire, 5, 8) = <<120, 86, 52, 18>>
            /\ packet.ty = -1 => SubSeq(wire, 9, 12) = <<255, 255, 255, 255>>
    /\ codec_pc = "refused" => Len(packet.body) > MaxBody

C14_Witness ==
    /\ codec_pc = "read" /\ decoded = Ok(packet)
    /\ packet.id = (-2147483647) - 1 /\ packet.ty = 2147483647 /\ packet.body = <<0>>

\* C15: after a SingleConnection is dropped without close, whatever its
\* Receiver Task was doing, the Receiver Task eventually terminates
C15_DroppedTaskTerminates == (pc = "dropped") ~> (rx_pc = "done")

C15_Witness == pc = "dropped" /\ rx_pc = "done" /\ ~link /\ inbox = <<>> /\ execs = MaxExecs

\* C16: at most one Reconnect Task has not yet returned, and a Reconnect Task
\* is spawned only when every earlier one has returned and the status is
\* Connected
C16_OneReconnectTask ==
    [][/\ Cardinality({t \in 1..Len(tasks') : tasks'[t] # "done"}) <= 1
       /\ Len(tasks') > Len(tasks) =>
            /\ \A t \in 1..Len(tasks) : tasks[t] = "done"
            /\ status.tag = "Connected"]_vars

C16_Witness == Len(tasks) = 2 /\ tasks[1] = "done" /\ tasks[2] \in {"open", "locking"}

\* C17: the terminator is written only after the Receiver Task has read, during
\* the call, a frame tagged with the call's original_id
C17_TerminatorAfterFirstFragment ==
    [][(pc = "wait_first" /\ Len(sent') > Len(sent)) => tagged_read]_vars

\* C18: while a request is active, a frame whose id is neither the request id
\* nor its successor is skipped: nothing is appended to the result, the
\* first-fragment signal is not raised and the response does not end
C18_OtherIdsSkipped ==
    [][(/\ rx_pc = "read" /\ inbox # <<>> /\ inbox' = Tail(inbox)
        /\ request_id > 0
        /\ Utf8Valid(Head(inbox).body)
        /\ Head(inbox).id \notin {request_id, next_counter(request_id)}) =>
            /\ result' = result
            /\ received_first_response' = received_first_response
            /\ end_id' = end_id
            /\ rx_pc' = "read"]_vars

\* C19: when a read has failed, the Receiver Task delivers the error and then
\* exits: the step that hands the error to the channel ends the task
C19_ExitsAfterReadError ==
    [][(/\ rx_pc \in {"store", "send"}
        /\ response = Err("IO", <<"read">>)
        /\ response' # response) => rx_pc' = "done"]_vars

\* C20: no Ok result is in the handoff channel while the caller waits for the
\* first-fragment signal, and the unreachable!() of wait_for_first_packet is
\* never executed
C20_NoResultWhileWaiting ==
    /\ pc # "panicked"
    /\ (pc = "wait_first" /\ chan # <<>>) => ~Head(chan).ok

\* C21: whenever no exec call is in progress the shared request id is -1
C21_IdleMeansNoRequest == (pc = "idle") => request_id = -1

\* C22: try_connect tries every IPv4 candidate before any IPv6 candidate and
\* returns the first stream that connects; when none connects it returns the
\* address-unavailable error if there was no candidate, and otherwise the
\* failure of the last candidate tried, a connect error or a timeout
C22_LastFailureReturned ==
    (dial_pc = "done" /\ lookup.ok) =>
        /\ \A i, j \in 1..Len(tries) : (i < j) => ~(IsV6(tries[i]) /\ IsV4(tries[j]))
        /\ \A i \in 1..(Len(tries) - 1) : tries[i].outcome # "connects"
        /\ IF \E i \in 1..Len(lookup.addrs) : lookup.addrs[i].outcome = "connects"
           THEN dial_ret = Ok(<<tries[Len(tries)].at>>)
           ELSE /\ Len(tries) = Len(lookup.addrs)
                /\ dial_ret =
                     IF tries = <<>> THEN Err("IO", <<"Could not resolve rcon host addr">>)
                     ELSE IF tries[Len(tries)].outcome = "refused"
                     THEN Err("IO", <<"connect", tries[Len(tries)].at>>)
                     ELSE Err("IO", <<"timeout", tries[Len(tries)].at>>)

====
